---- MODULE Spec2Model ----
(***************************************************************************)
(* Log file visualizer (21stmayprogress.py): marker scan, sectionizer,     *)
(* coordinate-pair resolver, line parser and the two Dash callbacks that   *)
(* keep the stores.                                                        *)
(*                                                                         *)
(* Python str values are TLA+ strings, read character by character with    *)
(* Len, SubSeq and \o.  An Optional[str] is a record [some, s]; a dict is  *)
(* the sequence of its <<key, value>> items in insertion order; a float    *)
(* parsed from a decimal is the decimal itself, [mant, exp], in lowest     *)
(* terms.                                                                  *)
(***************************************************************************)
EXTENDS Integers, Sequences, FiniteSets, TLC

VARIABLES
    \* the dcc.Store / component properties the callbacks read and write
    all_sectors, sector_options, file_info, custom_var_store, coord_vars_store,
    sector_dropdown, sector_data, sector_coord_data, variable_options,
    coord_options,
    \* a single call of one function: its arguments, its position, its result
    arg, pc, ret

vars == << all_sectors, sector_options, file_info, custom_var_store,
           coord_vars_store, sector_dropdown, sector_data, sector_coord_data,
           variable_options, coord_options, arg, pc, ret >>

storeVars == << all_sectors, sector_options, file_info, custom_var_store,
                coord_vars_store, sector_dropdown, sector_data,
                sector_coord_data, variable_options, coord_options >>

(***************************************************************************)
(* Python values                                                           *)
(***************************************************************************)
None == [some |-> FALSE, s |-> ""]
Str(s) == [some |-> TRUE, s |-> s]
\* `if v:` for an Optional[str]
Truthy(v) == v.some /\ v.s # ""

Char(s, i) == SubSeq(s, i, i)
From(s, i) == SubSeq(s, i, Len(s))

Letters ==
    { "a", "b", "c", "d", "e", "f", "g", "h", "i", "j", "k", "l", "m",
      "n", "o", "p", "q", "r", "s", "t", "u", "v", "w", "x", "y", "z",
      "A", "B", "C", "D", "E", "F", "G", "H", "I", "J", "K", "L", "M",
      "N", "O", "P", "Q", "R", "S", "T", "U", "V", "W", "X", "Y", "Z" }
Digits == { "0", "1", "2", "3", "4", "5", "6", "7", "8", "9" }
WhiteSpace == { " ", "\t" }

IsSpace(c) == c \in WhiteSpace
IsDigit(c) == c \in Digits
\* str.isalpha() of a one-character string
IsAlpha(c) == c \in Letters

RECURSIVE LStrip(_)
LStrip(s) ==
    IF Len(s) > 0 /\ IsSpace(Char(s, 1)) THEN LStrip(From(s, 2)) ELSE s

RECURSIVE RStrip(_)
RStrip(s) ==
    IF Len(s) > 0 /\ IsSpace(Char(s, Len(s)))
    THEN RStrip(SubSeq(s, 1, Len(s) - 1))
    ELSE s

\* str.strip()
Strip(s) == RStrip(LStrip(s))

\* str.endswith(suf)
EndsWith(s, suf) ==
    Len(s) >= Len(suf) /\ SubSeq(s, Len(s) - Len(suf) + 1, Len(s)) = suf

\* s[:-1]
DropLast(s) == SubSeq(s, 1, Len(s) - 1)

\* k in d, d[k], d[k] = v of an insertion-ordered dict
DictHas(d, k) == \E i \in 1..Len(d) : d[i][1] = k
DictGet(d, k) == d[CHOOSE i \in 1..Len(d) : d[i][1] = k][2]
DictSet(d, k, v) ==
    IF DictHas(d, k)
    THEN [i \in 1..Len(d) |-> IF d[i][1] = k THEN <<k, v>> ELSE d[i]]
    ELSE Append(d, <<k, v>>)
DictKeys(d) == { d[i][1] : i \in 1..Len(d) }
DictItems(d) == { d[i] : i \in 1..Len(d) }

(***************************************************************************)
(* Coordinate-pair resolver                                                *)
(***************************************************************************)
base_pairs ==
    << <<"OrigTgX", "OrigTgY">>,
       <<"FusionX", "FusionY">>,
       <<"KalmanTgX", "KalmanTgY">>,
       <<"WX", "WY">>,
       <<"LXW", "LYW">>,
       <<"RWX", "RWY">>,
       <<"current_coord.x", "current_coord.y">> >>

\* lines 25-29: the pair of the custom variable itself
CustomPair(d, c) ==
    IF ~DictHas(d, c)
    THEN IF EndsWith(c, "X")
         THEN DictSet(d, c, DropLast(c) \o "Y")
         ELSE DictSet(d, c, c \o "Y")
    ELSE d

\* lines 31-32: the auxiliary pair of a one-letter custom variable
AuxPair(d, c) ==
    IF Len(c) = 1 /\ IsAlpha(c)
    THEN DictSet(d, "R" \o c, "R" \o c \o "Y")
    ELSE d

generate_default_coord_variables_AppendOnly(custom_variable) ==
    IF Truthy(custom_variable)
    THEN LET c == Strip(custom_variable.s)
         IN  AuxPair(IF DictHas(base_pairs, c) THEN base_pairs
                     ELSE DictSet(base_pairs, c, c \o "Y"), c)
    ELSE base_pairs

generate_default_coord_variables(custom_variable) ==
    IF Truthy(custom_variable)
    THEN LET c == Strip(custom_variable.s)
         IN  AuxPair(CustomPair(base_pairs, c), c)
    ELSE base_pairs

\* line 133: the coordinate-set name of an X variable
coord_name(x_var) ==
    IF EndsWith(x_var, "X") THEN DropLast(x_var) \o "_Coords"
    ELSE x_var \o "_Coords"

(***************************************************************************)
(* Regular expressions and conversions of the line parser                  *)
(***************************************************************************)
\* the classes [\w.] and [-\d.]
NameChars == Letters \cup Digits \cup { "_", "." }
ValueChars == Digits \cup { "-", "." }

\* the first position at or after i whose character is not in cls
RECURSIVE RunEnd(_, _, _)
RunEnd(cls, s, i) ==
    IF i <= Len(s) /\ Char(s, i) \in cls THEN RunEnd(cls, s, i + 1) ELSE i

DigitVal(c) == (CHOOSE n \in 1..10 : Char("0123456789", n) = c) - 1

\* int() of a string of decimal digits
RECURSIVE ToInt(_)
ToInt(s) ==
    IF Len(s) = 0 THEN 0
    ELSE 10 * ToInt(DropLast(s)) + DigitVal(Char(s, Len(s)))

RECURSIVE Count(_, _)
Count(c, s) ==
    IF Len(s) = 0 THEN 0
    ELSE Count(c, From(s, 2)) + (IF Char(s, 1) = c THEN 1 ELSE 0)

RECURSIVE Remove(_, _)
Remove(c, s) ==
    IF Len(s) = 0 THEN ""
    ELSE (IF Char(s, 1) = c THEN "" ELSE Char(s, 1)) \o Remove(c, From(s, 2))

\* whether float(v) succeeds, for v made of the characters [-\d.]
IsFloat(v) ==
    LET body == IF Len(v) > 0 /\ Char(v, 1) = "-" THEN From(v, 2) ELSE v
    IN  /\ Count("-", body) = 0
        /\ Count(".", body) <= 1
        /\ \E i \in 1..Len(body) : IsDigit(Char(body, i))

\* a decimal mant * 10^-exp in lowest terms (mant not a multiple of 10
\* unless exp = 0): equal floats have equal representations
RECURSIVE Normal(_, _)
Normal(mant, exp) ==
    IF exp > 0 /\ mant % 10 = 0 THEN Normal(mant \div 10, exp - 1)
    ELSE [mant |-> mant, exp |-> exp]

\* float(v), for v with IsFloat(v)
Float(v) ==
    LET neg  == Char(v, 1) = "-"
        body == IF neg THEN From(v, 2) ELSE v
        dot  == IF Count(".", body) = 0 THEN Len(body) + 1
                ELSE CHOOSE i \in 1..Len(body) : Char(body, i) = "."
        exp  == IF dot > Len(body) THEN 0 ELSE Len(body) - dot
        mag  == ToInt(Remove(".", body))
    IN  Normal(IF neg THEN 0 - mag ELSE mag, exp)

\* line 96: re.match(r'(\d{2}/\d{2}/\d{2} \d{2}:\d{2}:\d{2}\.\d{3})\s+(.*)')
TimestampShape == "dd/dd/dd dd:dd:dd.ddd"
TimestampLen == 21

MatchLine(line) ==
    LET ok == /\ Len(line) > TimestampLen
              /\ \A i \in 1..TimestampLen :
                    IF Char(TimestampShape, i) = "d"
                    THEN IsDigit(Char(line, i))
                    ELSE Char(line, i) = Char(TimestampShape, i)
              /\ IsSpace(Char(line, TimestampLen + 1))
    IN  [ok |-> ok,
         timestamp |-> IF ok THEN SubSeq(line, 1, TimestampLen) ELSE "",
         content |-> IF ok
                     THEN From(line, RunEnd(WhiteSpace, line, TimestampLen + 1))
                     ELSE ""]

DaysInMonth(year, month) ==
    IF month = 2
    THEN (IF year % 4 = 0 /\ (year % 100 # 0 \/ year % 400 = 0) THEN 29 ELSE 28)
    ELSE IF month \in { 4, 6, 9, 11 } THEN 30 ELSE 31

\* line 101: datetime.strptime(timestamp, '%d/%m/%y %H:%M:%S.%f'); ok is
\* FALSE where it raises ValueError
strptime(timestamp) ==
    LET d  == ToInt(SubSeq(timestamp, 1, 2))
        m  == ToInt(SubSeq(timestamp, 4, 5))
        y  == ToInt(SubSeq(timestamp, 7, 8))
        H  == ToInt(SubSeq(timestamp, 10, 11))
        M  == ToInt(SubSeq(timestamp, 13, 14))
        S  == ToInt(SubSeq(timestamp, 16, 17))
        f  == ToInt(SubSeq(timestamp, 19, 21))
        year == IF y >= 69 THEN 1900 + y ELSE 2000 + y
        ok == /\ m \in 1..12
              /\ d >= 1 /\ d <= DaysInMonth(year, m)
              /\ H <= 23 /\ M <= 59 /\ S <= 59
    IN  [ok |-> ok, dt |-> <<year, m, d, H, M, S, f * 1000>>]

\* one attempt of r'([\w.]+)\s*[:=]\s*([-\d.]+)' at position i
MatchPair(s, i) ==
    LET j == RunEnd(NameChars, s, i)
        k == RunEnd(WhiteSpace, s, j)
        sep == k <= Len(s) /\ Char(s, k) \in { ":", "=" }
        m == RunEnd(WhiteSpace, s, k + 1)
        n == RunEnd(ValueChars, s, m)
        ok == j > i /\ sep /\ n > m
    IN  [ok |-> ok,
         var |-> IF ok THEN SubSeq(s, i, j - 1) ELSE "",
         val |-> IF ok THEN SubSeq(s, m, n - 1) ELSE "",
         end |-> n]

\* line 105: re.findall, the non-overlapping matches from position i on
RECURSIVE FindAll(_, _)
FindAll(s, i) ==
    IF i > Len(s) THEN <<>>
    ELSE LET r == MatchPair(s, i)
         IN  IF r.ok THEN << <<r.var, r.val>> >> \o FindAll(s, r.end)
             ELSE FindAll(s, i + 1)

\* the scan asking for a : or = between the name and the value
RECURSIVE SearchCustomSeparated(_, _, _)
SearchCustomSeparated(c, s, i) ==
    IF i + Len(c) - 1 > Len(s) THEN [ok |-> FALSE, val |-> ""]
    ELSE LET r == MatchPair(s, i)
         IN  IF r.ok /\ r.var = c THEN [ok |-> TRUE, val |-> r.val]
             ELSE SearchCustomSeparated(c, s, i + 1)

\* lines 118-119: re.search(rf'{re.escape(c)}\s+([-\d.]+)'), leftmost match
\* at or after position i
RECURSIVE SearchCustom(_, _, _)
SearchCustom(c, s, i) ==
    IF i + Len(c) - 1 > Len(s) THEN [ok |-> FALSE, val |-> ""]
    ELSE LET j == i + Len(c)
             k == RunEnd(WhiteSpace, s, j)
             n == RunEnd(ValueChars, s, k)
         IN  IF SubSeq(s, i, j - 1) = c /\ k > j /\ n > k
             THEN [ok |-> TRUE, val |-> SubSeq(s, k, n - 1)]
             ELSE SearchCustom(c, s, i + 1)

(***************************************************************************)
(* Line parser                                                             *)
(***************************************************************************)
\* lines 108-115: the rows of the name/value pairs with a numeric value
RECURSIVE PairRows(_, _, _, _)
PairRows(pairs, timestamp, dt, line_num) ==
    IF pairs = <<>> THEN <<>>
    ELSE LET var == Head(pairs)[1]
             val == Head(pairs)[2]
             rest == PairRows(Tail(pairs), timestamp, dt, line_num)
         IN  IF IsFloat(val)
             THEN << [timestamp |-> timestamp, datetime |-> dt,
                      line_number |-> line_num, variable |-> var,
                      value |-> Float(val)] >> \o rest
             ELSE rest

\* lines 106-111: parsed_values, a later pair of a name replacing an earlier
RECURSIVE ParsedValues(_)
ParsedValues(pairs) ==
    IF pairs = <<>> THEN <<>>
    ELSE LET last == pairs[Len(pairs)]
             d == ParsedValues(SubSeq(pairs, 1, Len(pairs) - 1))
         IN  IF IsFloat(last[2]) THEN DictSet(d, last[1], Float(last[2]))
             ELSE d

\* lines 117-126: the row of the custom-variable scan
CustomRows(custom_variable, content, timestamp, dt, line_num) ==
    IF Truthy(custom_variable)
    THEN LET match_custom == SearchCustom(custom_variable.s, content, 1)
         IN  IF match_custom.ok /\ IsFloat(match_custom.val)
             THEN << [timestamp |-> timestamp, datetime |-> dt,
                      line_number |-> line_num,
                      variable |-> custom_variable.s,
                      value |-> Float(match_custom.val)] >>
             ELSE <<>>
    ELSE <<>>

\* the coordinate rows with `or` in the place of `and`
RECURSIVE CoordRowsEither(_, _, _, _, _)
CoordRowsEither(coord_vars, parsed_values, timestamp, dt, line_num) ==
    IF coord_vars = <<>> THEN <<>>
    ELSE LET x_var == Head(coord_vars)[1]
             y_var == Head(coord_vars)[2]
             rest == CoordRowsEither(Tail(coord_vars), parsed_values,
                                     timestamp, dt, line_num)
             zero == [mant |-> 0, exp |-> 0]
         IN  IF DictHas(parsed_values, x_var) \/ DictHas(parsed_values, y_var)
             THEN << [timestamp |-> timestamp, datetime |-> dt,
                      line_number |-> line_num,
                      coord_name |-> coord_name(x_var),
                      x |-> IF DictHas(parsed_values, x_var)
                            THEN DictGet(parsed_values, x_var) ELSE zero,
                      y |-> IF DictHas(parsed_values, y_var)
                            THEN DictGet(parsed_values, y_var) ELSE zero] >>
                  \o rest
             ELSE rest

\* lines 128-137: the coordinate rows, in the order of the map's items
RECURSIVE CoordRows(_, _, _, _, _)
CoordRows(coord_vars, parsed_values, timestamp, dt, line_num) ==
    IF coord_vars = <<>> THEN <<>>
    ELSE LET x_var == Head(coord_vars)[1]
             y_var == Head(coord_vars)[2]
             rest == CoordRows(Tail(coord_vars), parsed_values, timestamp,
                               dt, line_num)
         IN  IF DictHas(parsed_values, x_var) /\ DictHas(parsed_values, y_var)
             THEN << [timestamp |-> timestamp, datetime |-> dt,
                      line_number |-> line_num,
                      coord_name |-> coord_name(x_var),
                      x |-> DictGet(parsed_values, x_var),
                      y |-> DictGet(parsed_values, y_var)] >> \o rest
             ELSE rest

\* lines 96-137: the body of the loop for one line; skipped is TRUE where
\* the body ends in one of its two `continue`s
LineRows(line, line_num, custom_variable, coord_vars) ==
    LET match == MatchLine(line)
        parsed == strptime(match.timestamp)
        pairs == FindAll(match.content, 1)
    IN  IF ~match.ok \/ ~parsed.ok
        THEN [skipped |-> TRUE, data |-> <<>>, coord_data |-> <<>>]
        ELSE [skipped |-> FALSE,
              data |-> PairRows(pairs, match.timestamp, parsed.dt, line_num)
                       \o CustomRows(custom_variable, match.content,
                                     match.timestamp, parsed.dt, line_num),
              coord_data |-> CoordRows(coord_vars, ParsedValues(pairs),
                                       match.timestamp, parsed.dt, line_num)]

\* the loop of line 95 from line number line_num on
RECURSIVE ScanLines(_, _, _, _)
ScanLines(lines, line_num, custom_variable, coord_vars) ==
    IF line_num > Len(lines) THEN [data |-> <<>>, coord_data |-> <<>>]
    ELSE LET here == LineRows(lines[line_num], line_num, custom_variable,
                              coord_vars)
             rest == ScanLines(lines, line_num + 1, custom_variable,
                               coord_vars)
         IN  [data |-> here.data \o rest.data,
              coord_data |-> here.coord_data \o rest.coord_data]

\* the loop with `break` in the place of `continue`
RECURSIVE ScanLinesBreak(_, _, _, _)
ScanLinesBreak(lines, line_num, custom_variable, coord_vars) ==
    IF line_num > Len(lines) THEN [data |-> <<>>, coord_data |-> <<>>]
    ELSE LET here == LineRows(lines[line_num], line_num, custom_variable,
                              coord_vars)
             rest == ScanLinesBreak(lines, line_num + 1, custom_variable,
                                    coord_vars)
         IN  IF here.skipped THEN [data |-> <<>>, coord_data |-> <<>>]
             ELSE [data |-> here.data \o rest.data,
                   coord_data |-> here.coord_data \o rest.coord_data]

\* the code points of the characters, for sorted()
CodeOrder ==
    "\t -.0123456789:=ABCDEFGHIJKLMNOPQRSTUVWXYZ_abcdefghijklmnopqrstuvwxyz"
Code(c) == CHOOSE n \in 1..Len(CodeOrder) : Char(CodeOrder, n) = c

\* s < t for two str
RECURSIVE StrLess(_, _)
StrLess(s, t) ==
    IF Len(t) = 0 THEN FALSE
    ELSE IF Len(s) = 0 THEN TRUE
    ELSE IF Char(s, 1) = Char(t, 1) THEN StrLess(From(s, 2), From(t, 2))
    ELSE Code(Char(s, 1)) < Code(Char(t, 1))

\* sorted(S) of a set of str
RECURSIVE Sorted(_)
Sorted(S) ==
    IF S = {} THEN <<>>
    ELSE LET least == CHOOSE s \in S : \A t \in S \ {s} : StrLess(s, t)
         IN  <<least>> \o Sorted(S \ {least})

Result(rows) ==
    [data |-> rows.data,
     coord_data |-> rows.coord_data,
     variables |-> Sorted({ rows.data[i].variable : i \in 1..Len(rows.data) }),
     coord_names |-> Sorted({ rows.coord_data[i].coord_name :
                                i \in 1..Len(rows.coord_data) })]

\* line 92
StripCustom(custom_var) ==
    IF Truthy(custom_var) THEN Str(Strip(custom_var.s)) ELSE None

process_sector_BreakOnSkip(lines, custom_var, coord_variables) ==
    Result(ScanLinesBreak(lines, 1, StripCustom(custom_var), coord_variables))

process_sector(lines, custom_var, coord_variables) ==
    Result(ScanLines(lines, 1, StripCustom(custom_var), coord_variables))

(***************************************************************************)
(* Marker scanner and sectionizer                                          *)
(*                                                                         *)
(* A file is the sequence of its lines, line terminators taken off, as     *)
(* grep numbers them and readlines() returns them.  The environment of a   *)
(* call says how the grep subprocess ends and whether open() succeeds.     *)
(***************************************************************************)
\* the position after the literal lit at position i of s, 0 when i is 0 or
\* lit is not there
Lit(s, i, lit) ==
    IF i > 0 /\ i + Len(lit) - 1 <= Len(s) /\ SubSeq(s, i, i + Len(lit) - 1) = lit
    THEN i + Len(lit) ELSE 0

\* the position after [0-9]+ at position i of s, 0 when i is 0 or no digit
\* is there
Num(s, i) ==
    IF i > 0 /\ RunEnd(Digits, s, i) > i THEN RunEnd(Digits, s, i) ELSE 0

\* line 39: the pattern, # standing for [0-9]+
MarkerPattern == << "RX ", "#", " RY ", "#", " TX ", "#", " TY ", "#" >>

\* the pattern's parts from part k on matched at position i
RECURSIVE PartsAt(_, _, _)
PartsAt(s, i, k) ==
    IF k > Len(MarkerPattern) THEN TRUE
    ELSE IF MarkerPattern[k] = "#"
    THEN Num(s, i) > 0 /\ PartsAt(s, Num(s, i), k + 1)
    ELSE Lit(s, i, MarkerPattern[k]) > 0
             /\ PartsAt(s, Lit(s, i, MarkerPattern[k]), k + 1)

MarkerAt(s, i) == PartsAt(s, i, 1)

\* grep -E: the pattern matches somewhere in the line
IsMarker(s) == \E i \in 1..Len(s) : MarkerAt(s, i)

\* lines 47-52: grep -n's output, parsed: (line number, stripped text)
RECURSIVE GrepMatches(_, _)
GrepMatches(file, n) ==
    IF n > Len(file) THEN <<>>
    ELSE (IF IsMarker(file[n]) THEN << <<n, Strip(file[n])>> >> ELSE <<>>)
             \o GrepMatches(file, n + 1)

\* grep's exit status: 0 with a match, 1 without, 2 on an error
GrepStatus(matched, env) ==
    IF env.grep = "error" THEN 2
    ELSE IF matched = <<>> THEN 1 ELSE 0

\* lines 45-59 where every non-zero exit status is an error
ScannedNoMatchIsError(matched, env) ==
    IF env.grep = "nobash"
    THEN [matched_lines |-> <<>>, err |-> Str("Unexpected error")]
    ELSE IF GrepStatus(matched, env) = 0
    THEN [matched_lines |-> matched, err |-> None]
    ELSE [matched_lines |-> <<>>, err |-> Str("Error running grep")]

\* lines 45-59: what run_grep_on_file returns, matched being the lines
\* grep selects when it runs
Scanned(matched, env) ==
    IF env.grep = "nobash"
    THEN [matched_lines |-> <<>>, err |-> Str("Unexpected error")]
    ELSE IF GrepStatus(matched, env) = 0
    THEN [matched_lines |-> matched, err |-> None]
    ELSE IF GrepStatus(matched, env) = 1
    THEN [matched_lines |-> <<>>, err |-> None]
    ELSE [matched_lines |-> <<>>, err |-> Str("Error running grep")]

run_grep_on_file_NoMatchIsError(file, env) ==
    ScannedNoMatchIsError(GrepMatches(file, 1), env)

run_grep_on_file(file, env) == Scanned(GrepMatches(file, 1), env)

\* str(n) of a natural number
RECURSIVE ToStr(_)
ToStr(n) ==
    IF n < 10 THEN Char("0123456789", n + 1)
    ELSE ToStr(n \div 10) \o Char("0123456789", (n % 10) + 1)

\* s[:n]
Prefix(s, n) == IF Len(s) <= n THEN s ELSE SubSeq(s, 1, n)

PreviewLen == 60

\* line 77: sector number idx + 1 stands for the name "Sector {idx+1}"
SectorName(number) == "Sector " \o ToStr(number)

NoSectorsInfo == "No sectors found matching pattern."
LoadedInfo(n) == "Loaded " \o ToStr(n) \o " sector(s)."

\* lines 78-80 with the last sector ending at its own marker's line
SectorLinesOfOffByOne(file, matched_lines, idx) ==
    LET start == matched_lines[idx][1]
        end == IF idx < Len(matched_lines) THEN matched_lines[idx + 1][1] - 1
               ELSE Len(file) - 1
    IN  [k \in 1..(IF end >= start THEN end - start + 1 ELSE 0) |->
            Strip(file[start + k - 1])]

\* lines 78-80: the stripped lines of the sector of marker idx (1-based);
\* lines[start_idx:end_idx] is file[start .. end] in 1-based line numbers
SectorLinesOf(file, matched_lines, idx) ==
    LET start == matched_lines[idx][1]
        end == IF idx < Len(matched_lines) THEN matched_lines[idx + 1][1] - 1
               ELSE Len(file)
    IN  [k \in 1..(IF end >= start THEN end - start + 1 ELSE 0) |->
            Strip(file[start + k - 1])]

\* lines 82-85
LabelOf(matched_lines, idx) ==
    [label |-> SectorName(idx) \o " - Line " \o ToStr(matched_lines[idx][1])
                   \o ": " \o Prefix(matched_lines[idx][2], PreviewLen),
     value |-> idx]

\* lines 63-87, scan being what line 62 got from run_grep_on_file
Sectionized(file, env, scan) ==
    IF Truthy(scan.err)
    THEN [sector_data |-> <<>>, labels |-> <<>>, info |-> scan.err.s]
    ELSE IF env.open = "error"
    THEN [sector_data |-> <<>>, labels |-> <<>>,
          info |-> "Error reading file"]
    ELSE IF scan.matched_lines = <<>>
    THEN [sector_data |-> <<>>, labels |-> <<>>, info |-> NoSectorsInfo]
    ELSE [sector_data |-> [idx \in 1..Len(scan.matched_lines) |->
                              SectorLinesOf(file, scan.matched_lines, idx)],
          labels |-> [idx \in 1..Len(scan.matched_lines) |->
                         LabelOf(scan.matched_lines, idx)],
          info |-> LoadedInfo(Len(scan.matched_lines))]

parse_log_file_from_path(file, env) ==
    Sectionized(file, env, run_grep_on_file(file, env))

(***************************************************************************)
(* The callbacks.  A store holding None is <<>>, a store holding v is      *)
(* <<v>>; the dropdown's value is the number of the sector it names, 0     *)
(* for None.  disk is the set of [path, file] the file system holds.       *)
(***************************************************************************)
\* str.strip('"')
RECURSIVE StripQuotes(_)
StripQuotes(s) ==
    IF Len(s) > 0 /\ Char(s, 1) = "\""
    THEN StripQuotes(From(s, 2))
    ELSE IF Len(s) > 0 /\ Char(s, Len(s)) = "\""
    THEN StripQuotes(DropLast(s))
    ELSE s

\* os.path.exists(path) and the lines of the file at path
Exists(disk, path) == \E e \in disk : e.path = path
FileAt(disk, path) == (CHOOSE e \in disk : e.path = path).file

\* lines 217-218, parsed being what line 216 got
Loaded(parsed, custom_var) ==
    [all_sectors |-> parsed.sector_data,
     options |-> parsed.labels,
     info |-> parsed.info,
     custom_var |-> custom_var,
     coord_vars |-> generate_default_coord_variables(custom_var)]

\* lines 211-216 for the cleaned path
ProcessPath(cleaned_path, custom_var, disk, env) ==
    IF ~Exists(disk, cleaned_path)
    THEN [all_sectors |-> <<>>, options |-> <<>>,
          info |-> " File not found: " \o cleaned_path,
          custom_var |-> custom_var, coord_vars |-> <<>>]
    ELSE Loaded(parse_log_file_from_path(FileAt(disk, cleaned_path), env),
                custom_var)

process_file(file_path, custom_var, disk, env) ==
    IF ~Truthy(file_path)
    THEN [all_sectors |-> <<>>, options |-> <<>>,
          info |-> " No file path provided.",
          custom_var |-> custom_var, coord_vars |-> <<>>]
    ELSE ProcessPath(StripQuotes(Strip(file_path.s)), custom_var, disk, env)

Options(names) == [k \in 1..Len(names) |-> [label |-> names[k], value |-> names[k]]]

NoSectorData ==
    [error |-> FALSE, sector_data |-> <<>>, sector_coord_data |-> <<>>,
     variable_options |-> <<>>, coord_options |-> <<>>]
\* the callback ending in an exception: no output is written
CallbackError == [NoSectorData EXCEPT !.error = TRUE]

\* lines 235-237, r being what line 234 got from process_sector
SectorData(r) ==
    [error |-> FALSE,
     sector_data |-> << r.data >>,
     sector_coord_data |-> << r.coord_data >>,
     variable_options |-> Options(r.variables),
     coord_options |-> Options(r.coord_names)]

\* update_sector_data looking the sector up without `not in all_sectors`
update_sector_data_Unchecked(selected_sector, sectors, custom_var, coord_vars) ==
    IF selected_sector = 0 THEN NoSectorData
    ELSE IF sectors = <<>> \/ selected_sector \notin 1..Len(sectors[1])
    THEN CallbackError
    ELSE SectorData(process_sector(sectors[1][selected_sector], custom_var,
                                   coord_vars[1]))

\* `x not in None` raises TypeError
update_sector_data(selected_sector, sectors, custom_var, coord_vars) ==
    IF selected_sector = 0 THEN NoSectorData
    ELSE IF sectors = <<>> THEN CallbackError
    ELSE IF selected_sector \notin 1..Len(sectors[1]) THEN NoSectorData
    ELSE SectorData(process_sector(sectors[1][selected_sector], custom_var,
                                   coord_vars[1]))

(***************************************************************************)
(* Inputs: custom variable names                                           *)
(***************************************************************************)
MaxCustomLen == 3
CustomAlphabet == { "X", "W", "R", "A", " ", "1" }

RECURSIVE StringsOfLen(_, _)
StringsOfLen(alphabet, n) ==
    IF n = 0 THEN { "" }
    ELSE { s \o c : s \in StringsOfLen(alphabet, n - 1), c \in alphabet }

CustomStrings ==
    UNION { StringsOfLen(CustomAlphabet, n) : n \in 0..MaxCustomLen }
        \cup DictKeys(base_pairs) \cup { "OrigTg", "LXWX", " RWX " }

CustomInputs == { None } \cup { Str(s) : s \in CustomStrings }

\* the stores before any callback has run
StoresIdle ==
    /\ all_sectors = <<>>
    /\ sector_options = <<>>
    /\ file_info = "None"
    /\ custom_var_store = None
    /\ coord_vars_store = <<>>
    /\ sector_dropdown = 0
    /\ sector_data = <<>>
    /\ sector_coord_data = <<>>
    /\ variable_options = <<>>
    /\ coord_options = <<>>

(***************************************************************************)
(* SpecCoord: one call of generate_default_coord_variables                 *)
(***************************************************************************)
InitCoord ==
    /\ StoresIdle
    /\ pc = "call"
    /\ arg \in { [custom_variable |-> c] : c \in CustomInputs }
    /\ ret = <<>>

CallCoord ==
    /\ pc = "call"
    /\ ret' = generate_default_coord_variables(arg.custom_variable)
    /\ pc' = "done"
    /\ UNCHANGED << arg, storeVars >>

NextCoord == CallCoord

SpecCoord == InitCoord /\ [][NextCoord]_vars

(***************************************************************************)
(* Inputs: sectors                                                         *)
(***************************************************************************)
MaxLines == 2

GoodStamp == "21/05/24 10:00:00.123 "
LeapStamp == "29/02/24 23:59:59.999  "
BadDateStamp == "31/02/24 10:00:00.123 "
BadHourStamp == "21/05/24 24:00:00.123 "
ShortStamp == "21/05/24 10:00:00.12 "
NoStamp == "not a timestamp line "

GoodStamps == { GoodStamp, LeapStamp }
BadStamps == { BadDateStamp, BadHourStamp, ShortStamp, NoStamp }

Contents ==
    { "OrigTgX: 5.0 OrigTgY: 3.0",
      "RX 12 RY 7 TX 3 TY 9",
      "WX:1 WY=2 W:3",
      "RX - RX 12 WX:4",
      "WY:2",
      "WX:1.2.3 WY:2",
      "WX=-1.50 WX=4 WY:.5" }

BadLineContents == { "WX:1 WY=2 W:3", "RX 12 RY 7 TX 3 TY 9" }

SectorLines ==
    { GoodStamp \o c : c \in Contents }
        \cup { LeapStamp \o "X=5" }
        \cup { s \o c : s \in BadStamps, c \in BadLineContents }

SeqsUpTo(S, n) == UNION { [1..k -> S] : k \in 0..n }

ParseCustoms == { None, Str("RX"), Str("W"), Str(" ") }

(***************************************************************************)
(* SpecParse: one call of process_sector, with the coordinate map that     *)
(* process_file stores for the custom variable                             *)
(***************************************************************************)
InitParse ==
    /\ StoresIdle
    /\ pc = "call"
    /\ arg \in { [lines |-> l, custom_var |-> c,
                  coord_variables |-> generate_default_coord_variables(c)] :
                 l \in SeqsUpTo(SectorLines, MaxLines), c \in ParseCustoms }
    /\ ret = <<>>

CallParse ==
    /\ pc = "call"
    /\ ret' = process_sector(arg.lines, arg.custom_var, arg.coord_variables)
    /\ pc' = "done"
    /\ UNCHANGED << arg, storeVars >>

NextParse == CallParse

SpecParse == InitParse /\ [][NextParse]_vars

(***************************************************************************)
(* Inputs: files                                                           *)
(***************************************************************************)
MaxFileLines == 3

MarkerLine == "  21/05/24 10:00:00.123 RX 12 RY 7 TX 3 TY 9 "
EmbeddedMarkerLine == "xRX 1 RY 2 TX 3 TY 45x"
NearMarkerLine == "21/05/24 10:00:00.123 RX 12 RY  7 TX 3 TY 9"
DataLine == "21/05/24 10:00:01.000 WX:1 WY=2 W:3"

MarkerLines == { MarkerLine, EmbeddedMarkerLine }
OtherLines == { NearMarkerLine, DataLine, "" }
FileLines == MarkerLines \cup OtherLines

Environments ==
    [grep : { "run", "error", "nobash" }, open : { "ok", "error" }]

(***************************************************************************)
(* SpecLoad: one call of parse_log_file_from_path, with the result of the  *)
(* scan of its line 62                                                     *)
(***************************************************************************)
InitLoad ==
    /\ StoresIdle
    /\ pc = "call"
    /\ arg \in { [file |-> f, env |-> e] :
                 f \in SeqsUpTo(FileLines, MaxFileLines), e \in Environments }
    /\ ret = <<>>

CallLoad ==
    /\ pc = "call"
    /\ ret' = [scan |-> run_grep_on_file(arg.file, arg.env),
               parse |-> parse_log_file_from_path(arg.file, arg.env)]
    /\ pc' = "done"
    /\ UNCHANGED << arg, storeVars >>

NextLoad == CallLoad

SpecLoad == InitLoad /\ [][NextLoad]_vars

(***************************************************************************)
(* Spec: the page, from its layout on; the user presses Process with a     *)
(* path and a custom variable, and the sector dropdown reports a value     *)
(***************************************************************************)
MaxDiskLines == 2

DiskLines == { "21/05/24 10:00:00.123 RX 12 RY 7 TX 3 TY 9", DataLine }

RECURSIVE PathOf(_)
PathOf(file) ==
    IF file = <<>> THEN ".log"
    ELSE (IF IsMarker(Head(file)) THEN "m" ELSE "d") \o PathOf(Tail(file))

Disk == { [path |-> PathOf(f), file |-> f] :
          f \in SeqsUpTo(DiskLines, MaxDiskLines) }

PathInputs ==
    { None, Str(""), Str("gone.log"), Str(" \"m.log\" ") }
        \cup { Str(e.path) : e \in Disk }
PageCustoms == { None, Str("RX"), Str("W") }
PageEnvironments == { [grep |-> "run", open |-> "ok"],
                      [grep |-> "error", open |-> "ok"] }

Init ==
    /\ StoresIdle
    /\ pc = "layout"
    /\ arg = [selected_sector |-> 0]
    /\ ret = "ok"

\* the five outputs of process_file written to their components
ProcessFileOutputs(out) ==
    /\ all_sectors' = << out.all_sectors >>
    /\ sector_options' = out.options
    /\ file_info' = out.info
    /\ custom_var_store' = out.custom_var
    /\ coord_vars_store' = << out.coord_vars >>

\* process-btn n_clicks: process_file runs with the two input fields
ProcessFile ==
    /\ \E file_path \in PathInputs, custom_var \in PageCustoms,
          env \in PageEnvironments :
           ProcessFileOutputs(process_file(file_path, custom_var, Disk, env))
    /\ pc' = "process_file"
    /\ ret' = "ok"
    /\ UNCHANGED << arg, sector_dropdown, sector_data, sector_coord_data,
                    variable_options, coord_options >>

\* the four outputs of update_sector_data written to their components,
\* unless it raised
UpdateSectorDataOutputs(out) ==
    IF out.error
    THEN /\ ret' = "error"
         /\ UNCHANGED << sector_data, sector_coord_data, variable_options,
                         coord_options >>
    ELSE /\ ret' = "ok"
         /\ sector_data' = out.sector_data
         /\ sector_coord_data' = out.sector_coord_data
         /\ variable_options' = out.variable_options
         /\ coord_options' = out.coord_options

\* sector-dropdown value: a value picked among the options, the value
\* cleared, or the value the dropdown still holds after its options were
\* replaced; update_sector_data runs with it and the three stores
SelectSector ==
    /\ \E value \in { 0, sector_dropdown }
                      \cup { sector_options[k].value :
                               k \in 1..Len(sector_options) } :
           /\ sector_dropdown' = value
           /\ arg' = [selected_sector |-> value]
           /\ UpdateSectorDataOutputs(
                  update_sector_data(value, all_sectors, custom_var_store,
                                     coord_vars_store))
    /\ pc' = "update_sector_data"
    /\ UNCHANGED << all_sectors, sector_options, file_info, custom_var_store,
                    coord_vars_store >>

Next == ProcessFile \/ SelectSector

Spec == Init /\ [][Next]_vars

(***************************************************************************)
(* Claims about generate_default_coord_variables (SpecCoord)               *)
(***************************************************************************)
\* C2, as stated: called with "RX", generate_default_coord_variables
\* returns the seven base pairs and nothing else.
C2_RXLeavesBaseUnchanged ==
    (pc = "done" /\ arg.custom_variable = Str("RX")) => ret = base_pairs

\* C2, amended: called with "RX" (not a base key) it returns the seven base
\* pairs followed by RX -> RY; called with a base key it returns the seven
\* base pairs unchanged.
C2_RXAddsPair ==
    pc = "done" =>
        /\ arg.custom_variable = Str("RX") =>
               ret = Append(base_pairs, <<"RX", "RY">>)
        /\ (arg.custom_variable.some
              /\ arg.custom_variable.s \in DictKeys(base_pairs)) =>
               ret = base_pairs

C2_Witness ==
    /\ pc = "done"
    /\ arg.custom_variable = Str("RX")
    /\ Len(ret) = Len(base_pairs) + 1

\* the map C3 describes for a custom variable
C3_Described(custom_variable) ==
    LET c == IF custom_variable.some THEN Strip(custom_variable.s) ELSE ""
    IN  DictItems(base_pairs)
            \cup (IF c # "" /\ c \notin DictKeys(base_pairs)
                  THEN { << c, IF Char(c, Len(c)) = "X"
                                THEN SubSeq(c, 1, Len(c) - 1) \o "Y"
                                ELSE c \o "Y" >> }
                  ELSE {})
            \cup (IF Len(c) = 1 /\ c \in Letters
                  THEN { << "R" \o c, "R" \o c \o "Y" >> }
                  ELSE {})

\* C3: for every custom variable the returned map holds exactly the seven
\* base pairs, the pair of the trimmed custom variable when it is non-empty
\* and no base key, and the R-pair when it is one letter; no key twice.
C3_ExactPairs ==
    pc = "done" =>
        /\ DictItems(ret) = C3_Described(arg.custom_variable)
        /\ Len(ret) = Cardinality(DictKeys(ret))

(***************************************************************************)
(* Claims about process_sector (SpecParse)                                 *)
(***************************************************************************)
HasPrefix(line, s) == Len(line) >= Len(s) /\ SubSeq(line, 1, Len(s)) = s
\* the lines of the inputs that carry a valid timestamp, and their free text
IsGoodLine(line) == \E s \in GoodStamps : HasPrefix(line, s)
IsBadLine(line) == \E s \in BadStamps : HasPrefix(line, s)
ContentOf(line) ==
    From(line, Len(CHOOSE s \in GoodStamps : HasPrefix(line, s)) + 1)

\* the numeric name:/=value tokens of a line's free text
NumericTokens(line) ==
    LET pairs == FindAll(ContentOf(line), 1)
        Numeric(pr) == IsFloat(pr[2])
    IN  SelectSeq(pairs, Numeric)
ParsedOn(line, name) ==
    \E k \in 1..Len(NumericTokens(line)) : NumericTokens(line)[k][1] = name
ValueOn(line, name) ==
    LET toks == NumericTokens(line)
        last == CHOOSE k \in 1..Len(toks) :
                    /\ toks[k][1] = name
                    /\ \A m \in (k + 1)..Len(toks) : toks[m][1] # name
    IN  Float(toks[last][2])

RowsOfLine(rows, i) ==
    LET OfLine(r) == r.line_number = i
    IN  SelectSeq(rows, OfLine)

\* the coordinate observations C4 describes for line i, pair by pair
RECURSIVE C4_Described(_, _)
C4_Described(line, pairs) ==
    IF pairs = <<>> THEN <<>>
    ELSE LET X == Head(pairs)[1]
             Y == Head(pairs)[2]
             name == (IF Len(X) > 0 /\ Char(X, Len(X)) = "X"
                      THEN SubSeq(X, 1, Len(X) - 1) ELSE X) \o "_Coords"
         IN  (IF ParsedOn(line, X) /\ ParsedOn(line, Y)
              THEN << <<name, ValueOn(line, X), ValueOn(line, Y)>> >>
              ELSE <<>>) \o C4_Described(line, Tail(pairs))

C4_Emitted(i) ==
    LET rows == RowsOfLine(ret.coord_data, i)
    IN  [k \in 1..Len(rows) |-> <<rows[k].coord_name, rows[k].x, rows[k].y>>]

\* C4: a line yields a Coordinate Observation for a pair X -> Y exactly when
\* it has a valid timestamp and both X and Y are numeric tokens of that same
\* line, with x, y their values and the name X less one trailing "X" plus
\* "_Coords"; OrigTgX: 5.0 OrigTgY: 3.0 gives exactly OrigTg_Coords (5, 3).
C4_CoordIffBothOnLine ==
    pc = "done" =>
        /\ \A i \in 1..Len(arg.lines) :
              C4_Emitted(i) =
                  IF IsGoodLine(arg.lines[i])
                  THEN C4_Described(arg.lines[i], arg.coord_variables)
                  ELSE <<>>
        /\ \A k \in 1..Len(ret.coord_data) :
              ret.coord_data[k].line_number \in 1..Len(arg.lines)
        /\ \A i \in 1..Len(arg.lines) :
              arg.lines[i] = GoodStamp \o "OrigTgX: 5.0 OrigTgY: 3.0" =>
                  C4_Emitted(i) = << <<"OrigTg_Coords", [mant |-> 5, exp |-> 0],
                                       [mant |-> 3, exp |-> 0]>> >>

\* WX alone on line 1, WX and WY on line 2: one coordinate observation, of
\* line 2, with the WX of line 2
C4_Witness ==
    /\ pc = "done"
    /\ arg.custom_var = None
    /\ arg.lines = << GoodStamp \o "RX - RX 12 WX:4",
                      GoodStamp \o "WX:1 WY=2 W:3" >>
    /\ Len(ret.coord_data) = 1
    /\ ret.coord_data[1].line_number = 2
    /\ ret.coord_data[1].coord_name = "W_Coords"
    /\ ret.coord_data[1].x = [mant |-> 1, exp |-> 0]
    /\ ret.coord_data[1].y = [mant |-> 2, exp |-> 0]

\* c followed at position p of s by one or more spaces and a run of [-\d.]
C5_Occurs(c, s, p) ==
    /\ p + Len(c) - 1 <= Len(s)
    /\ SubSeq(s, p, p + Len(c) - 1) = c
    /\ RunEnd(WhiteSpace, s, p + Len(c)) > p + Len(c)
    /\ RunEnd(ValueChars, s, RunEnd(WhiteSpace, s, p + Len(c)))
           > RunEnd(WhiteSpace, s, p + Len(c))
C5_Run(c, s, p) ==
    LET k == RunEnd(WhiteSpace, s, p + Len(c))
    IN  SubSeq(s, k, RunEnd(ValueChars, s, k) - 1)
C5_Custom == Strip(arg.custom_var.s)
C5_Given == arg.custom_var.some /\ C5_Custom # ""

\* C5, as stated: every timestamped line whose free text holds c followed
\* by spaces and a numeric value yields an Observation of c with that
\* value, and c is in the returned variable list.
C5_EveryOccurrenceObserved ==
    (pc = "done" /\ C5_Given) =>
        \A i \in 1..Len(arg.lines) :
            IsGoodLine(arg.lines[i]) =>
                \A p \in 1..Len(ContentOf(arg.lines[i])) :
                    (/\ C5_Occurs(C5_Custom, ContentOf(arg.lines[i]), p)
                     /\ IsFloat(C5_Run(C5_Custom, ContentOf(arg.lines[i]), p)))
                    => /\ \E k \in 1..Len(ret.data) :
                            /\ ret.data[k].line_number = i
                            /\ ret.data[k].variable = C5_Custom
                            /\ ret.data[k].value =
                                 Float(C5_Run(C5_Custom,
                                              ContentOf(arg.lines[i]), p))
                       /\ \E k \in 1..Len(ret.variables) :
                            ret.variables[k] = C5_Custom

\* C5, amended: the leftmost place where c is followed by whitespace and a
\* run of [-0-9.] decides: when that run is a number the line yields, after
\* the rows of its name/value tokens, one more Observation of c with that
\* value (no separator needed) and c is in the variable list; otherwise the
\* line yields no extra Observation.
C5_LeftmostOccurrenceObserved ==
    (pc = "done" /\ C5_Given) =>
        \A i \in 1..Len(arg.lines) :
            IsGoodLine(arg.lines[i]) =>
                LET s == ContentOf(arg.lines[i])
                    rows == RowsOfLine(ret.data, i)
                    tokens == Len(NumericTokens(arg.lines[i]))
                    occ == { p \in 1..Len(s) : C5_Occurs(C5_Custom, s, p) }
                    first == CHOOSE p \in occ : \A q \in occ : p <= q
                IN  IF occ # {} /\ IsFloat(C5_Run(C5_Custom, s, first))
                    THEN /\ Len(rows) = tokens + 1
                         /\ rows[Len(rows)].variable = C5_Custom
                         /\ rows[Len(rows)].value =
                                Float(C5_Run(C5_Custom, s, first))
                         /\ \E k \in 1..Len(ret.variables) :
                                ret.variables[k] = C5_Custom
                    ELSE Len(rows) = tokens

C5_Witness ==
    /\ pc = "done"
    /\ arg.custom_var = Str("RX")
    /\ arg.lines = << GoodStamp \o "RX 12 RY 7 TX 3 TY 9" >>
    /\ Len(ret.data) = 1
    /\ ret.data[1].variable = "RX"
    /\ ret.data[1].value = [mant |-> 12, exp |-> 0]
    /\ ret.variables = << "RX" >>

\* lines with line i taken out, and rows renumbered accordingly
RemoveAt(lines, i) ==
    [k \in 1..(Len(lines) - 1) |-> IF k < i THEN lines[k] ELSE lines[k + 1]]
Renumbered(rows, i) ==
    [k \in 1..Len(rows) |->
        IF rows[k].line_number > i
        THEN [rows[k] EXCEPT !.line_number = @ - 1]
        ELSE rows[k]]

\* C6: a line without a leading timestamp, or with one that is no valid
\* date/time, contributes no row, and the other lines contribute the rows
\* they contribute without it (line numbers apart).
C6_BadLineSkipped ==
    pc = "done" =>
        \A i \in 1..Len(arg.lines) :
            IsBadLine(arg.lines[i]) =>
                LET without == process_sector(RemoveAt(arg.lines, i),
                                              arg.custom_var,
                                              arg.coord_variables)
                IN  /\ RowsOfLine(ret.data, i) = <<>>
                    /\ RowsOfLine(ret.coord_data, i) = <<>>
                    /\ Renumbered(ret.data, i) = without.data
                    /\ Renumbered(ret.coord_data, i) = without.coord_data
                    /\ ret.variables = without.variables
                    /\ ret.coord_names = without.coord_names

\* a bad line with tokens and a custom-variable occurrence, then a good one
C6_Witness ==
    /\ pc = "done"
    /\ arg.custom_var = Str("RX")
    /\ arg.lines = << BadDateStamp \o "RX 12 RY 7 TX 3 TY 9",
                      GoodStamp \o "WX:1 WY=2 W:3" >>
    /\ Len(ret.data) = 3
    /\ Len(ret.coord_data) = 1
    /\ ret.data[1].line_number = 2

\* C10: distinct X keys of the stored map derive distinct coordinate-set
\* names, so a line yields at most one Coordinate Observation per name.
C10_NamesIdentifyPairs ==
    pc = "done" =>
        /\ \A k, m \in 1..Len(arg.coord_variables) :
              k # m => coord_name(arg.coord_variables[k][1])
                          # coord_name(arg.coord_variables[m][1])
        /\ \A k, m \in 1..Len(ret.coord_data) :
              k # m => \/ ret.coord_data[k].line_number
                            # ret.coord_data[m].line_number
                       \/ ret.coord_data[k].coord_name
                            # ret.coord_data[m].coord_name

(***************************************************************************)
(* Claims about the scanner and the sectionizer (SpecLoad)                 *)
(***************************************************************************)
\* the marker line numbers of the input file, from how the input was built
C1_Markers(file) == { n \in 1..Len(file) : file[n] \in MarkerLines }
C1_Sorted(file) ==
    LET M == C1_Markers(file)
    IN  [i \in 1..Cardinality(M) |->
            CHOOSE n \in M : Cardinality({ m \in M : m < n }) = i - 1]
C1_Stripped(file, from, to) ==
    [k \in 1..(to - from + 1) |-> Strip(file[from + k - 1])]
RECURSIVE C1_Concat(_)
C1_Concat(seqs) ==
    IF seqs = <<>> THEN <<>> ELSE Head(seqs) \o C1_Concat(Tail(seqs))
\* a scan and a read that succeed on a file with N >= 1 markers
C1_Loaded ==
    /\ pc = "done"
    /\ arg.env = [grep |-> "run", open |-> "ok"]
    /\ C1_Markers(arg.file) # {}
C1_SectorsAsRanges ==
    LET m == C1_Sorted(arg.file)
        N == Len(m)
    IN  /\ Len(ret.parse.sector_data) = N
        /\ \A i \in 1..N :
              ret.parse.sector_data[i] =
                  C1_Stripped(arg.file, m[i],
                              IF i < N THEN m[i + 1] - 1 ELSE Len(arg.file))

\* C1, as stated: N markers give N sectors, sector i the lines from marker
\* i up to the next marker (the last to the end of the file), and the
\* sectors together hold every line 1..L of the file exactly once.
C1_SectorsCoverFile ==
    C1_Loaded =>
        /\ C1_SectorsAsRanges
        /\ C1_Concat(ret.parse.sector_data)
               = C1_Stripped(arg.file, 1, Len(arg.file))

\* C1, amended: N markers give N sectors, sector i the lines from marker i
\* up to the next marker (the last to the end of the file), and the sectors
\* together hold exactly once every line from the first marker's line to L;
\* the lines before the first marker are in no sector.
C1_SectorsCoverFromFirstMarker ==
    C1_Loaded =>
        /\ C1_SectorsAsRanges
        /\ C1_Concat(ret.parse.sector_data)
               = C1_Stripped(arg.file, C1_Sorted(arg.file)[1], Len(arg.file))

\* two sectors after a line that precedes the first marker
C1_Witness ==
    /\ C1_Loaded
    /\ arg.file = << DataLine, MarkerLine, EmbeddedMarkerLine >>
    /\ ret.parse.sector_data = << << Strip(MarkerLine) >>,
                                  << EmbeddedMarkerLine >> >>

\* C7: on a readable file without a marker the scan returns no match and no
\* error, and the load returns no sector, no label and the "no sectors
\* found" information, which no failed scan or read returns.
C7_NoMarkersIsNotAnError ==
    pc = "done" =>
        /\ (arg.env.grep = "run" /\ C1_Markers(arg.file) = {}) =>
               /\ ret.scan = [matched_lines |-> <<>>, err |-> None]
               /\ arg.env.open = "ok" =>
                      ret.parse = [sector_data |-> <<>>, labels |-> <<>>,
                                   info |-> NoSectorsInfo]
        /\ (arg.env.grep # "run" \/ arg.env.open = "error") =>
               /\ ret.parse.sector_data = <<>>
               /\ ret.parse.labels = <<>>
               /\ ret.parse.info # NoSectorsInfo

C7_Witness ==
    /\ pc = "done"
    /\ arg.env = [grep |-> "run", open |-> "ok"]
    /\ arg.file = << NearMarkerLine, DataLine >>
    /\ ret.parse.info = NoSectorsInfo

(***************************************************************************)
(* Claims about the callbacks (Spec)                                       *)
(***************************************************************************)
C8_Absent ==
    /\ pc = "update_sector_data"
    /\ \/ arg.selected_sector = 0
       \/ all_sectors = <<>>
       \/ arg.selected_sector \notin 1..Len(all_sectors[1])

\* C8: the dropdown reporting a sector name that the stored sector table
\* does not hold (no selection, or a name left from a file with more
\* sectors) gives the empty result and no failure.
C8_AbsentSectorGivesEmptyResult ==
    C8_Absent =>
        /\ ret = "ok"
        /\ sector_data = <<>>
        /\ sector_coord_data = <<>>
        /\ variable_options = <<>>
        /\ coord_options = <<>>

\* "Sector 2" held from a file of two sectors, the stored file having one
C8_Witness ==
    /\ pc = "update_sector_data"
    /\ arg.selected_sector = 2
    /\ Len(all_sectors[1]) = 1
    /\ sector_data = <<>>
    /\ ret = "ok"

\* C9: the stored tables are empty, or they are process_sector of the
\* selected sector's lines in the stored sector table, with the stored
\* custom variable and coordinate map.
C9_TablesMatchStores ==
    \/ /\ sector_data \in { <<>>, << <<>> >> }
       /\ sector_coord_data \in { <<>>, << <<>> >> }
    \/ /\ all_sectors # <<>>
       /\ sector_dropdown \in 1..Len(all_sectors[1])
       /\ LET r == process_sector(all_sectors[1][sector_dropdown],
                                  custom_var_store, coord_vars_store[1])
          IN  /\ sector_data = << r.data >>
              /\ sector_coord_data = << r.coord_data >>

====
